---- MODULE Spec2Model ----
(***************************************************************************)
(* Credential lifecycle and tool dispatch of the Google Workspace MCP      *)
(* server.  Two server programs live in the repository: src/serverv3.js    *)
(* (with ensureValidToken) and src/unnamed/part_000 (the earlier server,   *)
(* without it).  The variable `server` says which of them is running.      *)
(*                                                                         *)
(* Time is in milliseconds, as Date.getTime() gives it.  An expiry of 0    *)
(* stands for "no expiry_date recorded" (undefined and 0 are both falsy in *)
(* `!expiry`).  An access token is named by the instant it was handed out  *)
(* at; 1 names the token handed out before the process started and 0       *)
(* stands for "no access token".                                           *)
(***************************************************************************)
EXTENDS Integers, Sequences, FiniteSets, TLC

\* ---------------------------------------------------------------- bounds
MaxHorizons == 2
MaxInvocations == 2

MaxSlotTicks == 4
MaxEvents == 2
MaxDuration == 4

\* ------------------------------------------------------ program constants
RefreshHorizon == 5 * 60 * 1000
MsPerMinute == 60000

\* Lifetime of an access token handed out by the token endpoint: the
\* refreshed credential expires ExpiresIn after the response is processed.
ExpiresIn == RefreshHorizon

\* The clock starts at Now0 and jumps between the multiples of the refresh
\* horizon and the instants 1 ms after them, so that the boundaries of the
\* three branches of ensureValidToken are all visited.
Now0 == RefreshHorizon
Times == {k * RefreshHorizon + d : k \in 1..MaxHorizons, d \in {0, 1}}

Servers == {"serverv3", "part_000"}
Inv == 1..MaxInvocations

\* ------------------------------------------------------------ tool names
CommonTools ==
    {"gmail_list_messages", "gmail_get_message", "gmail_send_message",
     "gmail_create_draft", "calendar_list_events", "calendar_create_event",
     "calendar_update_event", "calendar_delete_event",
     "calendar_find_free_slots", "docs_create", "docs_get",
     "docs_append_text", "docs_insert_text", "docs_replace_text",
     "docs_format_text", "docs_list_recent", "docs_share"}
FitTools == {"fit_get_activity_summary", "fit_record_activity_session"}

\* RegisteredTools with a case that accepts any name.
RegisteredTools_Any(s) == CommonTools \cup FitTools \cup {"no_such_tool"}

\* The case labels of the switch in the CallTool handler.
RegisteredTools(s) ==
    IF s = "serverv3" THEN CommonTools \cup FitTools ELSE CommonTools

\* Names the invoker sends: a registered tool and a name no server knows.
RequestNames == {"gmail_list_messages", "no_such_tool"}

\* ------------------------------------------------------------ data model
Blob(k, a, e) == [kind |-> k, access |-> a, expiry |-> e]
Unset == Blob("unset", 0, 0)
Absent == Blob("absent", 0, 0)
Empty == Blob("empty", 0, 0)
Malformed == Blob("malformed", 0, 0)
NullClient == Blob("null", 0, 0)
\* Nothing reads the environment overrides once authorize has returned: they
\* are dropped from the state at that point.
Consumed == Blob("consumed", 0, 0)
Token(a, e) == Blob("token", a, e)
Client(a, e) == Blob("client", a, e)

NoResult == [kind |-> "none", text |-> ""]
OkResult == [kind |-> "ok", text |-> "content"]

\* Expiries of the credentials found at start-up: none recorded, 1 ms in the
\* past and 1 ms ahead.  All of them were handed out before the process
\* started, so they lie below Now0 + ExpiresIn.
InitExpiries == {0, Now0 - 1, Now0 + 1}
InitTokens == {Token(1, e) : e \in InitExpiries}

\* Invocation 1 is the invocation under observation: the model records what
\* happens in it and keeps its result until it is collected.  The other
\* invocations run the same handler around it; their slots are free again as
\* soon as their result is sent.
Observed == 1
Obs(i) == i = Observed

VARIABLES
    server,      \* which server program runs
    now,         \* the clock, ms
    envToken,    \* process.env.GOOGLE_TOKEN, until authorize has returned
    envCreds,    \* process.env.GOOGLE_CREDENTIALS, likewise:
                 \* "unset", "malformed", "valid"
    tokenFile,   \* contents of TOKEN_PATH (Empty: a file cut short, no JSON)
    credFile,    \* contents of CREDENTIALS_PATH: "absent", "valid"
    auth,        \* this.auth (its credentials)
    mainPc,      \* position of run()/initialize()/authorize()
    loadResult,  \* what loadSavedCredentialsIfExist returned to authorize
    pc,          \* per invocation: position of the CallTool handler
    name,        \* per invocation: request.params.name
    branch,      \* per invocation: the branch of ensureValidToken it is in
    payload,     \* per invocation: the payload its writeFile is writing
    result,      \* what the handler returned for the observed invocation
    hist,        \* observations of the observed invocation (see NoHist)
    slotPc,      \* findFreeSlots: "idle", "called", "returned"
    slotArgs,    \* findFreeSlots: the window, the duration and the events
    freeSlots    \* findFreeSlots: the list it returned

vars == <<server, now, envToken, envCreds, tokenFile, credFile, auth, mainPc,
          loadResult, pc, name, branch, payload, result, hist,
          slotPc, slotArgs, freeSlots>>

\* The state of the free-slot computation, which the credential lifecycle
\* and the dispatch leave alone.
slotVars == <<slotPc, slotArgs, freeSlots>>

\* Observations of the observed invocation, written by the steps of its
\* handler:
\*  cls            ExpiryClass of this.auth's expiry when ensureValidToken
\*                 was entered ("none" when it was not entered);
\*  startFile      the expiry in the token file when the mandatory branch
\*                 was entered (kept until the payload is built);
\*  higher         the payload's expiry exceeded startFile;
\*  attempts       refreshAccessToken calls made by the invocation;
\*  refreshFailed  the refresh rejected;
\*  saveFailed     saveCredentials rejected;
\*  wrote          the invocation's writeFile completed;
\*  evt            ensureValidToken: "none" (not called), "running",
\*                 "returned", "threw";
\*  ranHandler     a tool handler was entered;
\*  thrown         message of the error caught by the handler's catch.
NoHist ==
    [cls |-> "none", startFile |-> 0, higher |-> FALSE, attempts |-> 0,
     refreshFailed |-> FALSE, saveFailed |-> FALSE, wrote |-> FALSE,
     evt |-> "none", ranHandler |-> FALSE, thrown |-> ""]

\* ------------------------------------------------- loadSavedCredentialsIfExist
\* JSON.parse of the client-key data followed by key.client_id,
\* key.client_secret and key.redirect_uris[0]: anything but a well-formed key
\* object throws.
KeysParse(k) == k = "valid"

\* LoadV3 with the catch block rethrowing instead of returning null.
LoadV3_Rethrow(et, ec, tf, cf) ==
    IF et.kind # "unset"
    THEN IF et.kind = "token" /\ KeysParse(IF ec # "unset" THEN ec ELSE cf)
         THEN Client(et.access, et.expiry)
         ELSE Blob("threw", 0, 0)
    ELSE IF tf.kind = "token" /\ KeysParse(cf)
         THEN Client(tf.access, tf.expiry)
         ELSE Blob("threw", 0, 0)

\* serverv3.js: the environment token, when set, is the only source tried;
\* every exception inside the try block is turned into null.
LoadV3(et, ec, tf, cf) ==
    IF et.kind # "unset"
    THEN IF et.kind = "token" /\ KeysParse(IF ec # "unset" THEN ec ELSE cf)
         THEN Client(et.access, et.expiry)
         ELSE NullClient
    ELSE IF tf.kind = "token" /\ KeysParse(cf)
         THEN Client(tf.access, tf.expiry)
         ELSE NullClient

\* part_000: google.auth.JWT is a class and is called without `new`, which
\* throws a TypeError inside the try block; a missing or unparsable token file
\* throws before that.  Every path ends in the catch.
LoadLegacy(tf) == NullClient

LoadSavedCredentialsIfExist(s, et, ec, tf, cf) ==
    IF s = "serverv3" THEN LoadV3(et, ec, tf, cf) ELSE LoadLegacy(tf)

\* ------------------------------------------------------------ saveCredentials
\* SavePayload without the expiry_date field.
SavePayload_NoExpiry(s, c) ==
    IF s = "serverv3" THEN Token(c.access, 0) ELSE Token(0, 0)

\* The record saveCredentials serialises from client.credentials.  part_000
\* writes the refresh token only: no access token and no expiry.
SavePayload(s, c) ==
    IF s = "serverv3" THEN Token(c.access, c.expiry) ELSE Token(0, 0)

\* ----------------------------------------------------------- ensureValidToken
\* Branch with the preventive window closed at five minutes (<= for <).
Branch_Inclusive(e, t) ==
    IF e = 0 \/ e <= t THEN "hard"
    ELSE IF e - t <= RefreshHorizon THEN "near"
    ELSE "noop"

\* The three branches of ensureValidToken for expiry e at time t.
Branch(e, t) ==
    IF e = 0 \/ e <= t THEN "hard"
    ELSE IF e - t < RefreshHorizon THEN "near"
    ELSE "noop"

\* OnRefreshError with the mandatory branch swallowing the error too.
OnRefreshError_Swallow(b) == "return"

\* OnRefreshError with the preventive branch throwing too.
OnRefreshError_Rethrow(b) == "throw"

\* What the catch block of a branch does with an error of the refresh or of
\* saveCredentials: the mandatory branch throws a new Error, the preventive
\* branch logs and falls through.
OnRefreshError(b) == IF b = "hard" THEN "throw" ELSE "return"

\* The messages are kept in ASCII.
NoAuthMsg == "No hay autenticacion disponible"
ReauthMsg == "Token invalido, se requiere re-autenticacion"
UpstreamMsg == "upstream failure"
UnknownMsg(n) == "Herramienta desconocida: " \o n

\* ------------------------------------------------------- the CallTool handler
\* CatchResult without the isError flag.
CatchResult_NotError(msg) == [kind |-> "ok", text |-> "Error: " \o msg]

\* The catch block of the handler: a failed result carrying error.message.
CatchResult(msg) == [kind |-> "error", text |-> "Error: " \o msg]

\* Whether the CallTool handler of server s calls ensureValidToken first.
ChecksToken(s) == s = "serverv3"

\* The handler of invocation i, called for tool n, returns res to the
\* invoker; h is what was observed of it.
Finish(i, n, res, h) ==
    /\ pc' = [pc EXCEPT ![i] = IF Obs(i) THEN "done" ELSE "idle"]
    /\ name' = [name EXCEPT ![i] = IF Obs(i) THEN n ELSE ""]
    /\ branch' = [branch EXCEPT ![i] = "none"]
    /\ result' = IF Obs(i) THEN res ELSE result
    /\ hist' = IF Obs(i) THEN h ELSE hist

\* The error is caught by the handler's catch: the invocation is answered
\* with a failed result.
Caught(i, n, h, msg) == Finish(i, n, CatchResult(msg), [h EXCEPT !.thrown = msg])

\* The switch on the tool name: a registered name enters its handler, which
\* suspends at its first remote call; any other name throws.
Dispatch(i, n, h) ==
    IF n \in RegisteredTools(server)
    THEN /\ pc' = [pc EXCEPT ![i] = "handler"]
         /\ name' = [name EXCEPT ![i] = n]
         /\ branch' = [branch EXCEPT ![i] = "none"]
         /\ hist' = IF Obs(i) THEN [h EXCEPT !.ranHandler = TRUE] ELSE hist
         /\ UNCHANGED result
    ELSE Caught(i, n, h, UnknownMsg(n))

\* ensureValidToken is left by invocation i after an error in its branch.
ValidationError(i, h) ==
    IF OnRefreshError(branch[i]) = "throw"
    THEN Caught(i, name[i], [h EXCEPT !.evt = "threw", !.startFile = 0], ReauthMsg)
    ELSE Dispatch(i, name[i], [h EXCEPT !.evt = "returned", !.startFile = 0])

FileExpiry(f) == IF f.kind = "token" THEN f.expiry ELSE 0
RefreshInFlight == Cardinality({i \in Inv : pc[i] = "refresh"})

\* Where an expiry e stands at time t: not recorded or reached, less than
\* five minutes ahead, or at least five minutes ahead.
ExpiryClass(e, t) ==
    CASE e = 0 \/ t >= e -> "expired"
      [] e > t /\ e < t + 300000 -> "near"
      [] OTHER -> "fresh"

\* ---------------------------------------------------------------- findFreeSlots
\* Instants are in ms since the epoch, as Date gives them; new Date(string)
\* and toISOString() keep the millisecond, so an instant stands for its ISO
\* string.  The instants tried lie half a minute apart.
HalfMinute == MsPerMinute \div 2
SlotTimes == {k * HalfMinute : k \in 0..MaxSlotTicks}

\* args.duration is a number of minutes and need not be whole (the input
\* schema says "number"): a duration is held as its count of half minutes,
\* so that duration * 60000 is the count times HalfMinute.
Durations == 0..MaxDuration

\* The events of the listing: start and end of each, in list order.
Event(s, e) == [start |-> s, end |-> e]
Events == {ev \in {Event(s, e) : s \in SlotTimes, e \in SlotTimes} : ev.end >= ev.start}
EventLists == UNION {[1..n -> Events] : n \in 0..MaxEvents}

Args(s, e, d, evs) == [startDate |-> s, endDate |-> e, duration |-> d, events |-> evs]
NoArgs == Args(0, 0, 0, <<>>)

\* The instant of hh:mm on the day the epoch starts.
At(hh, mm) == (hh * 60 + mm) * MsPerMinute

\* The listing of a working day: the window from 09:00 to 17:00, 30 minutes
\* wanted, events from 10:00 to 10:15 and from 12:00 to 13:00.
WorkingDay ==
    Args(At(9, 0), At(17, 0), 2 * 30,
         <<Event(At(10, 0), At(10, 15)), Event(At(12, 0), At(13, 0))>>)

\* LongEnough comparing the length of the gap whatever its sign.
LongEnough_Abs(gap, duration) ==
    (IF gap < 0 THEN 0 - gap ELSE gap) >= duration * HalfMinute

\* LongEnough with a strict comparison.
LongEnough_Strict(gap, duration) == gap > duration * HalfMinute

\* The test of both `if`s: the gap is at least `duration` minutes long.
LongEnough(gap, duration) == gap >= duration * HalfMinute

\* FreeSlot with the duration left in milliseconds.
FreeSlot_Ms(s, e) == [start |-> s, end |-> e, duration |-> e - s]

\* FreeSlot with the duration rounded up to the next minute.
FreeSlot_Ceil(s, e) ==
    [start |-> s, end |-> e, duration |-> (e - s + MsPerMinute - 1) \div MsPerMinute]

\* The object pushed on freeSlots.
FreeSlot(s, e) == [start |-> s, end |-> e, duration |-> (e - s) \div MsPerMinute]

\* Advance leaving the cursor where it is.
Advance_Keep(currentTime, eventEnd) == currentTime

\* Advance without the comparison: the cursor follows the last event's end.
Advance_NoMax(currentTime, eventEnd) == eventEnd

\* currentTime = eventEnd > currentTime ? eventEnd : currentTime
Advance(currentTime, eventEnd) ==
    IF eventEnd > currentTime THEN eventEnd ELSE currentTime

\* Scan with the cursor set to the end of each event in turn.
RECURSIVE Scan_CursorFollows(_, _, _, _, _)
Scan_CursorFollows(events, k, currentTime, duration, slots) ==
    IF k > Len(events)
    THEN [currentTime |-> currentTime, slots |-> slots]
    ELSE Scan_CursorFollows(events, k + 1, events[k].end, duration,
                            IF LongEnough(events[k].start - currentTime, duration)
                            THEN Append(slots, FreeSlot(currentTime, events[k].start))
                            ELSE slots)

\* The for loop from event k on, with cursor currentTime and the slots
\* pushed so far; it yields the cursor and the slots at the end of the loop.
RECURSIVE Scan(_, _, _, _, _)
Scan(events, k, currentTime, duration, slots) ==
    IF k > Len(events)
    THEN [currentTime |-> currentTime, slots |-> slots]
    ELSE LET eventStart == events[k].start
             eventEnd == events[k].end
         IN Scan(events, k + 1, Advance(currentTime, eventEnd), duration,
                 IF LongEnough(eventStart - currentTime, duration)
                 THEN Append(slots, FreeSlot(currentTime, eventStart))
                 ELSE slots)

\* FindFreeSlots pushing the slot after the last event without the test.
FindFreeSlots_TrailingAlways(a) ==
    LET r == Scan(a.events, 1, a.startDate, a.duration, <<>>)
    IN Append(r.slots, FreeSlot(r.currentTime, a.endDate))

\* FindFreeSlots without the slot after the last event.
FindFreeSlots_NoTrailing(a) ==
    Scan(a.events, 1, a.startDate, a.duration, <<>>).slots

\* The list findFreeSlots serialises into its result.
FindFreeSlots(a) ==
    LET r == Scan(a.events, 1, a.startDate, a.duration, <<>>)
    IN IF LongEnough(a.endDate - r.currentTime, a.duration)
       THEN Append(r.slots, FreeSlot(r.currentTime, a.endDate))
       ELSE r.slots

\* ======================================================================
\* Start-up: run() -> initialize() -> authorize(), then server.connect().
\* ======================================================================
Pending == Blob("pending", 0, 0)

\* part_000 never reads the environment: its overrides are left unset.
EnvTokens(s) ==
    IF s = "serverv3" THEN {Unset, Malformed} \cup InitTokens ELSE {Unset}
EnvCreds(s) ==
    IF s = "serverv3" THEN {"unset", "malformed", "valid"} ELSE {"unset"}

Init ==
    /\ server \in Servers
    /\ now = Now0
    /\ envToken \in EnvTokens(server)
    /\ envCreds \in EnvCreds(server)
    /\ tokenFile \in {Absent, Empty, Token(1, Now0 - 1), Token(1, Now0 + 1)}
    /\ credFile \in {"absent", "valid"}
    /\ auth = NullClient
    /\ mainPc = "start"
    /\ loadResult = Pending
    /\ pc = [i \in Inv |-> "idle"]
    /\ name = [i \in Inv |-> ""]
    /\ branch = [i \in Inv |-> "none"]
    /\ payload = [i \in Inv |-> Empty]
    /\ result = NoResult
    /\ hist = NoHist
    /\ slotPc = "idle"
    /\ slotArgs = NoArgs
    /\ freeSlots = <<>>

invVars == <<pc, name, branch, payload, result, hist>>
envVars == <<server, envToken, envCreds, credFile>>

\* AuthorizeLoad returning a loaded client without the probe.
AuthorizeLoad_NoProbe ==
    /\ mainPc = "start"
    /\ LET c == LoadSavedCredentialsIfExist(server, envToken, envCreds,
                                            tokenFile, credFile)
       IN /\ loadResult' = c
          /\ IF c.kind # "client"
             THEN mainPc' = "interactive" /\ UNCHANGED auth
             ELSE mainPc' = "serving" /\ auth' = c
    /\ UNCHANGED <<now, tokenFile, invVars, envVars, slotVars>>

\* authorize() calls loadSavedCredentialsIfExist().  serverv3 probes a loaded
\* client with getAccessToken(); part_000 returns it as it is; without a
\* client both start the interactive grant.
AuthorizeLoad ==
    /\ mainPc = "start"
    /\ LET c == LoadSavedCredentialsIfExist(server, envToken, envCreds,
                                            tokenFile, credFile)
       IN /\ loadResult' = c
          /\ IF c.kind # "client"
             THEN mainPc' = "interactive" /\ UNCHANGED auth
             ELSE IF server = "serverv3"
                  THEN mainPc' = "probe" /\ UNCHANGED auth
                  ELSE mainPc' = "serving" /\ auth' = c
    /\ UNCHANGED <<now, tokenFile, invVars, envVars, slotVars>>

\* client.getAccessToken() resolves with the access token the client holds:
\* authorize returns the loaded client, initialize builds the services and
\* run connects the transport.
ProbeOkCached ==
    /\ mainPc = "probe"
    /\ auth' = loadResult
    /\ mainPc' = "serving"
    /\ UNCHANGED <<now, tokenFile, invVars, server, credFile, slotVars>>
    /\ envToken' = Consumed /\ envCreds' = "consumed"
    /\ loadResult' = Pending

\* client.getAccessToken() resolves after the client library refreshed the
\* credentials of the client in memory.
ProbeOkRefreshed ==
    /\ mainPc = "probe"
    /\ auth' = Client(now, now + ExpiresIn)
    /\ mainPc' = "serving"
    /\ UNCHANGED <<now, tokenFile, invVars, server, credFile, slotVars>>
    /\ envToken' = Consumed /\ envCreds' = "consumed"
    /\ loadResult' = Pending

\* client.getAccessToken() rejects: the client is dropped.
ProbeFail ==
    /\ mainPc = "probe"
    /\ mainPc' = "interactive"
    /\ loadResult' = NullClient
    /\ UNCHANGED <<now, tokenFile, auth, invVars, envVars, slotVars>>

\* authenticate() reads the key file and returns a fresh client, which
\* saveCredentials persists.
InteractiveOk ==
    /\ mainPc = "interactive"
    /\ KeysParse(credFile)
    /\ LET c == Client(now, now + ExpiresIn)
       IN /\ auth' = c
          /\ tokenFile' = SavePayload(server, c)
    /\ mainPc' = "serving"
    /\ UNCHANGED <<now, invVars, server, credFile, slotVars>>
    /\ envToken' = Consumed /\ envCreds' = "consumed"
    /\ loadResult' = Pending

\* InteractiveFail with the error swallowed: the transport is connected
\* without a client.
InteractiveFail_Connects ==
    /\ mainPc = "interactive"
    /\ mainPc' = "serving"
    /\ UNCHANGED <<now, tokenFile, auth, invVars, server, credFile, slotVars>>
    /\ envToken' = Consumed /\ envCreds' = "consumed"
    /\ loadResult' = Pending

\* authenticate() rejects (no usable key file, consent refused), or the
\* writeFile of saveCredentials rejects, before the file was opened or after
\* the open had truncated it: authorize and initialize throw, run() rejects
\* and the process exits with status 1.
InteractiveFail ==
    /\ mainPc = "interactive"
    /\ mainPc' = "exited"
    /\ tokenFile' \in IF KeysParse(credFile) THEN {tokenFile, Empty} ELSE {tokenFile}
    /\ UNCHANGED <<now, auth, invVars, server, credFile, slotVars>>
    /\ envToken' = Consumed /\ envCreds' = "consumed"
    /\ loadResult' = Pending

\* The clock advances.
Tick ==
    /\ mainPc # "exited"
    /\ \E t \in Times : t > now /\ now' = t
    /\ UNCHANGED <<tokenFile, auth, mainPc, loadResult, invVars, envVars, slotVars>>


\* ======================================================================
\* Tool invocations: the CallTool request handler.  The transport hands
\* every request to the handler when it arrives, so invocations overlap at
\* their awaits.
\* ======================================================================
fixedVars == <<now, mainPc, loadResult, envVars, slotVars>>

\* A request for tool n arrives and runs up to its first suspension.
\* serverv3 enters ensureValidToken: without a client it throws; in the
\* mandatory and the preventive branch it suspends at refreshAccessToken();
\* otherwise it returns at once and the switch runs.  part_000 goes straight
\* to the switch.
CallTool(i, n) ==
    /\ mainPc = "serving"
    /\ pc[i] = "idle"
    /\ IF ~ChecksToken(server)
       THEN Dispatch(i, n, NoHist)
       ELSE IF auth.kind # "client"
       THEN Caught(i, n, [NoHist EXCEPT !.evt = "threw"], NoAuthMsg)
       ELSE LET b == Branch(auth.expiry, now)
                h0 == [NoHist EXCEPT !.cls = ExpiryClass(auth.expiry, now),
                                     !.evt = "running"]
            IN IF b = "noop"
               THEN Dispatch(i, n, [h0 EXCEPT !.evt = "returned"])
               ELSE /\ pc' = [pc EXCEPT ![i] = "refresh"]
                    /\ name' = [name EXCEPT ![i] = n]
                    /\ branch' = [branch EXCEPT ![i] = b]
                    /\ hist' = IF Obs(i)
                               THEN [h0 EXCEPT !.attempts = 1,
                                               !.startFile =
                                                   IF b = "hard"
                                                   THEN FileExpiry(tokenFile)
                                                   ELSE 0]
                               ELSE hist
                    /\ UNCHANGED result
    /\ UNCHANGED <<tokenFile, auth, payload, fixedVars>>

\* refreshAccessToken() resolves: setCredentials installs the new
\* credentials and saveCredentials suspends reading the key file.
RefreshOk(i) ==
    /\ pc[i] = "refresh"
    /\ auth' = Client(now, now + ExpiresIn)
    /\ pc' = [pc EXCEPT ![i] = "saveRead"]
    /\ UNCHANGED <<tokenFile, name, branch, payload, result, hist, fixedVars>>

\* RefreshFail removing the token file, as the log message asks the user to.
RefreshFail_Unlink(i) ==
    /\ pc[i] = "refresh"
    /\ ValidationError(i, [hist EXCEPT !.refreshFailed = TRUE])
    /\ tokenFile' = Absent
    /\ UNCHANGED <<auth, payload, fixedVars>>

\* RefreshFail dropping the client whose refresh failed.
RefreshFail_DropsClient(i) ==
    /\ pc[i] = "refresh"
    /\ ValidationError(i, [hist EXCEPT !.refreshFailed = TRUE])
    /\ auth' = NullClient
    /\ UNCHANGED <<tokenFile, payload, fixedVars>>

\* refreshAccessToken() rejects.
RefreshFail(i) ==
    /\ pc[i] = "refresh"
    /\ ValidationError(i, [hist EXCEPT !.refreshFailed = TRUE])
    /\ UNCHANGED <<tokenFile, auth, payload, fixedVars>>

\* saveCredentials: the key file was read and parsed; the payload is built
\* from the credentials the client holds now and writeFile is started.
SaveReadOk(i) ==
    /\ pc[i] = "saveRead"
    /\ KeysParse(credFile)
    /\ payload' = [payload EXCEPT ![i] = SavePayload(server, auth)]
    /\ pc' = [pc EXCEPT ![i] = "saveWrite"]
    /\ hist' = IF Obs(i)
               THEN [hist EXCEPT !.higher =
                         SavePayload(server, auth).expiry > hist.startFile,
                                 !.startFile = 0]
               ELSE hist
    /\ UNCHANGED <<tokenFile, auth, name, branch, result, fixedVars>>

\* saveCredentials: the key file is missing or does not parse.
SaveReadFail(i) ==
    /\ pc[i] = "saveRead"
    /\ ~KeysParse(credFile)
    /\ ValidationError(i, [hist EXCEPT !.saveFailed = TRUE])
    /\ UNCHANGED <<tokenFile, auth, payload, fixedVars>>

\* writeFile resolves: the payload is in the file, ensureValidToken returns
\* and the switch runs.
SaveWriteOk(i) ==
    /\ pc[i] = "saveWrite"
    /\ tokenFile' = payload[i]
    /\ payload' = [payload EXCEPT ![i] = Empty]
    /\ Dispatch(i, name[i], [hist EXCEPT !.wrote = TRUE, !.evt = "returned"])
    /\ UNCHANGED <<auth, fixedVars>>

\* writeFile rejects: before the file was opened, which leaves it as it was,
\* or after the open had truncated it.
SaveWriteFail(i) ==
    /\ pc[i] = "saveWrite"
    /\ tokenFile' \in {tokenFile, Empty}
    /\ payload' = [payload EXCEPT ![i] = Empty]
    /\ ValidationError(i, [hist EXCEPT !.saveFailed = TRUE])
    /\ UNCHANGED <<auth, fixedVars>>

\* HandlerOk with a tool that removes the token file.
HandlerOk_Unlink(i) ==
    /\ pc[i] = "handler"
    /\ Finish(i, name[i], OkResult, hist)
    /\ tokenFile' = Absent
    /\ UNCHANGED <<auth, payload, fixedVars>>

\* The remote calls of the tool handler succeed: the handler returns content.
HandlerOk(i) ==
    /\ pc[i] = "handler"
    /\ Finish(i, name[i], OkResult, hist)
    /\ UNCHANGED <<tokenFile, auth, payload, fixedVars>>

\* A remote call of the tool handler rejects with the upstream error.
HandlerFail(i) ==
    /\ pc[i] = "handler"
    /\ Caught(i, name[i], hist, UpstreamMsg)
    /\ UNCHANGED <<tokenFile, auth, payload, fixedVars>>

\* The result of the observed invocation has been collected; its slot serves
\* the next request.
Return ==
    /\ pc[Observed] = "done"
    /\ pc' = [pc EXCEPT ![Observed] = "idle"]
    /\ name' = [name EXCEPT ![Observed] = ""]
    /\ result' = NoResult
    /\ hist' = NoHist
    /\ UNCHANGED <<tokenFile, auth, branch, payload, fixedVars>>

Next ==
    \/ AuthorizeLoad
    \/ ProbeOkCached
    \/ ProbeOkRefreshed
    \/ ProbeFail
    \/ InteractiveOk
    \/ InteractiveFail
    \/ Tick
    \/ \E i \in Inv : \E n \in RequestNames : CallTool(i, n)
    \/ \E i \in Inv : RefreshOk(i)
    \/ \E i \in Inv : RefreshFail(i)
    \/ \E i \in Inv : SaveReadOk(i)
    \/ \E i \in Inv : SaveReadFail(i)
    \/ \E i \in Inv : SaveWriteOk(i)
    \/ \E i \in Inv : SaveWriteFail(i)
    \/ \E i \in Inv : HandlerOk(i)
    \/ \E i \in Inv : HandlerFail(i)
    \/ Return

Spec == Init /\ [][Next]_vars

TypeOK ==
    /\ server \in Servers
    /\ now \in Times
    /\ auth.kind \in {"null", "client"}
    /\ tokenFile.kind \in {"absent", "empty", "token"}
    /\ credFile \in {"absent", "valid"}
    /\ mainPc \in {"start", "probe", "interactive", "serving", "exited"}
    /\ result.kind \in {"none", "ok", "error"}
    /\ \A i \in Inv :
        /\ pc[i] \in {"idle", "refresh", "saveRead", "saveWrite", "handler", "done"}
        /\ branch[i] \in {"none", "hard", "near"}
        /\ pc[i] = "done" => Obs(i)

\* ======================================================================
\* findFreeSlots on its own: the listing has resolved with some events for
\* some window and the function computes its list.
\* ======================================================================
InitSlots ==
    /\ server = "serverv3"
    /\ now = Now0
    /\ envToken = Consumed
    /\ envCreds = "consumed"
    /\ tokenFile = Absent
    /\ credFile = "valid"
    /\ auth = Client(Now0, Now0 + ExpiresIn)
    /\ mainPc = "serving"
    /\ loadResult = Pending
    /\ pc = [i \in Inv |-> "idle"]
    /\ name = [i \in Inv |-> ""]
    /\ branch = [i \in Inv |-> "none"]
    /\ payload = [i \in Inv |-> Empty]
    /\ result = NoResult
    /\ hist = NoHist
    /\ slotPc = "called"
    /\ \/ \E s \in SlotTimes : \E e \in {t \in SlotTimes : t > s} :
          \E d \in Durations : \E evs \in EventLists :
              slotArgs = Args(s, e, d, evs)
       \/ slotArgs = WorkingDay
    /\ freeSlots = <<>>

\* Lines 963-988: the loop over the events and the trailing slot.
FindFreeSlotsReturn ==
    /\ slotPc = "called"
    /\ freeSlots' = FindFreeSlots(slotArgs)
    /\ slotPc' = "returned"
    /\ UNCHANGED <<slotArgs, tokenFile, auth, invVars, now, mainPc, loadResult, envVars>>

NextSlots == FindFreeSlotsReturn

SpecSlots == InitSlots /\ [][NextSlots]_vars

\* ======================================================================
\* Properties.  They are stated of the observed invocation, which is any
\* invocation: the others start, suspend and finish around it in every order.
\* ======================================================================
Returned == hist.evt = "returned"
Threw == hist.evt = "threw"
ErrorText(msg) == "Error: " \o msg

\* C1: a call of ensureValidToken that finds the expiry missing or <= now
\* makes a refresh attempt, and when that attempt fails the call throws: it
\* never returns normally and no tool handler runs.
C1_MandatoryRefresh ==
    hist.cls = "expired" =>
        /\ hist.attempts = 1
        /\ hist.refreshFailed => Threw /\ ~hist.ranHandler /\ pc[Observed] = "done"

C1_Witness == hist.cls = "expired" /\ hist.refreshFailed /\ Threw

\* C2: a call of ensureValidToken that finds now < expiry < now + 5 min makes
\* a refresh attempt and never throws: when the refresh or the save after it
\* fails the call returns normally and a registered tool's handler runs.
C2_BestEffortRefresh ==
    hist.cls = "near" =>
        /\ hist.attempts = 1
        /\ ~Threw
        /\ (hist.refreshFailed \/ hist.saveFailed) =>
              /\ Returned
              /\ name[Observed] = "gmail_list_messages" => hist.ranHandler

C2_Witness ==
    /\ hist.cls = "near"
    /\ hist.saveFailed
    /\ tokenFile = Empty
    /\ hist.ranHandler
    /\ pc[Observed] = "handler"

\* C3: a call of ensureValidToken that finds expiry - now >= 5 min (the
\* boundary included) returns at once: it starts no refresh, leaves the
\* credentials in memory as they are and does not touch the token file.
C3_NoOp ==
    [][(pc[Observed] = "idle" /\ hist'.cls = "fresh") =>
          /\ auth' = auth
          /\ tokenFile' = tokenFile
          /\ payload' = payload
          /\ hist'.attempts = 0
          /\ hist'.evt = "returned"
          /\ pc'[Observed] \in {"handler", "done"}
          /\ RefreshInFlight' = RefreshInFlight]_vars

C3_Witness ==
    /\ hist.cls = "fresh"
    /\ pc[Observed] = "handler"
    /\ auth.expiry - now = 300000

\* C4 (as claimed): whenever the credentials in memory are replaced, the new
\* expiry is strictly greater than the one it replaces.
C4_ExpiryStrictlyIncreases ==
    [][(auth.kind = "client" /\ auth'.kind = "client" /\ mainPc = "serving"
        /\ \E i \in Inv : pc[i] = "refresh" /\ pc'[i] = "saveRead") =>
          auth'.expiry > auth.expiry]_vars

\* C5: a call of ensureValidToken that finds the credential expired and
\* returns normally has written the token file, and the expiry it wrote is
\* strictly greater than the expiry the file held when the call began.
C5_PersistIncreasing ==
    (hist.cls = "expired" /\ Returned) => hist.wrote /\ hist.higher

C5_Witness ==
    /\ hist.cls = "expired" /\ Returned /\ hist.wrote
    /\ tokenFile.kind = "token" /\ tokenFile.expiry > now

\* C6 (as claimed): at most one refreshAccessToken call is in flight.
C6_SingleRefreshInFlight == RefreshInFlight <= 1

\* C7 (as claimed): in every invocation, of either server, a tool handler is
\* entered only after ensureValidToken has returned normally.
C7_ValidatedBeforeHandler ==
    (pc[Observed] = "handler" \/ hist.ranHandler) => Returned

\* C8: every error thrown inside an invocation (the failed mandatory refresh,
\* a failed remote call, an unknown tool) ends the invocation with a failed
\* result whose text carries the error's message, and the server keeps
\* serving.
C8_FailuresAreResults ==
    /\ (\E i \in Inv : pc[i] # "idle") => mainPc = "serving"
    /\ (hist.cls = "expired" /\ (hist.refreshFailed \/ hist.saveFailed)) =>
          hist.thrown = "Token invalido, se requiere re-autenticacion"
    /\ hist.thrown # "" =>
          /\ pc[Observed] = "done"
          /\ result.kind = "error"
          /\ result.text = ErrorText(hist.thrown)
    /\ (pc[Observed] = "done" /\ hist.thrown = "") => result.kind = "ok"

C8_Witness ==
    /\ pc[Observed] = "done"
    /\ hist.refreshFailed /\ Threw
    /\ result.kind = "error"
    /\ \E i \in Inv : pc[i] = "handler"

\* C9 (as claimed): an invocation of an unknown tool ends with a failed
\* result whose message calls the tool unknown.
C9_UnknownToolMessage ==
    (pc[Observed] = "done" /\ name[Observed] = "no_such_tool") =>
        /\ result.kind = "error"
        /\ result.text = ErrorText("Herramienta desconocida: no_such_tool")

\* C9 (amended): an invocation of an unknown tool never enters a tool handler
\* and ends with a failed result while the server keeps serving; the message
\* calls the tool unknown when ensureValidToken returned normally (or was not
\* called), and is the re-authentication message when ensureValidToken threw.
C9_UnknownToolFails ==
    name[Observed] = "no_such_tool" =>
        /\ ~hist.ranHandler
        /\ pc[Observed] # "handler"
        /\ mainPc = "serving"
        /\ pc[Observed] = "done" =>
              /\ result.kind = "error"
              /\ result.text =
                    IF Threw
                    THEN ErrorText("Token invalido, se requiere re-autenticacion")
                    ELSE ErrorText("Herramienta desconocida: no_such_tool")

C9_Witness ==
    /\ pc[Observed] = "done" /\ name[Observed] = "no_such_tool"
    /\ Returned /\ hist.cls = "near" /\ hist.refreshFailed
    /\ result.text = "Error: Herramienta desconocida: no_such_tool"

\* C10: with no environment token and no token file,
\* loadSavedCredentialsIfExist returns null to authorize; it does not throw.
C10_AbsentLoadsNull ==
    (mainPc \in {"probe", "interactive"} /\ envToken = Unset /\ tokenFile = Absent) =>
        loadResult = NullClient

C10_Witness ==
    /\ server = "serverv3"
    /\ mainPc = "interactive"
    /\ envToken = Unset
    /\ tokenFile = Absent
    /\ loadResult = NullClient

\* A credential source that is present and does not yield a credential: the
\* environment token or the key data it is merged with does not parse, or,
\* without an environment token, the token file does not parse.
MalformedSource ==
    \/ envToken = Malformed
    \/ envToken.kind = "token" /\ envCreds = "malformed"
    \/ envToken = Unset /\ tokenFile = Empty

\* C11 (as claimed): with a malformed credential source, load does not return
\* the "no credential" value it returns for an absent source; it throws.
C11_MalformedThrows ==
    (mainPc = "interactive" /\ MalformedSource) => loadResult # NullClient

\* C12 (as claimed): with the environment token set but yielding no
\* credential, and a valid token file and key file, load returns the
\* credential of the token file.
C12_FallsBackToFile ==
    (/\ mainPc \in {"probe", "interactive"}
     /\ \/ envToken = Malformed
        \/ envToken.kind = "token"
           /\ ~KeysParse(IF envCreds # "unset" THEN envCreds ELSE credFile)
     /\ tokenFile.kind = "token"
     /\ KeysParse(credFile)) =>
        loadResult = Client(tokenFile.access, tokenFile.expiry)

C14_SavedOnReturn ==
    [][(mainPc' = "serving" /\ mainPc # "serving") =>
          tokenFile' = SavePayload(server, auth')]_vars

\* C15 (as claimed): the token file only ever changes from one complete
\* record to another; it is never left empty or cut short.
C15_AtomicSave ==
    [][tokenFile' # tokenFile => tokenFile'.kind = "token"]_vars

\* C16 (as claimed): whenever saveCredentials has succeeded, in authorize or
\* in ensureValidToken, loading the token file without an environment
\* override yields the credentials of the saved client.
C16_SaveLoadRoundTrip ==
    [][/\ (mainPc = "interactive" /\ mainPc' = "serving") =>
              LoadSavedCredentialsIfExist(server, Unset, "unset", tokenFile', credFile) = auth'
       /\ \A i \in Inv :
              (pc[i] = "saveRead" /\ pc'[i] = "saveWrite") =>
                  LoadSavedCredentialsIfExist(server, Unset, "unset", payload'[i], credFile) = auth
       /\ \A i \in Inv :
              (pc[i] = "saveWrite" /\ pc'[i] # "saveWrite" /\ tokenFile'.kind = "token"
               /\ tokenFile' # tokenFile) =>
                  tokenFile' = payload[i]]_vars

\* A step writes the token file as saveCredentials does: at the end of the
\* interactive grant, or by an invocation leaving its writeFile.
SaveStep ==
    \/ mainPc = "interactive" /\ mainPc' # "interactive"
    \/ \E i \in Inv : pc[i] = "saveWrite" /\ pc'[i] # "saveWrite"

\* C17: the token file changes only in a step of saveCredentials, and the
\* client-key file never changes: the load, the probe, an ensureValidToken
\* call that does not refresh and the tool handlers leave both as they are.
C17_FilesFrame ==
    [][/\ credFile' = credFile
       /\ tokenFile' # tokenFile => SaveStep]_vars

\* The token file was rewritten by a refresh and a tool handler has run.
C17_Witness ==
    /\ hist.wrote /\ pc[Observed] = "done" /\ result.kind = "ok"
    /\ tokenFile.kind = "token" /\ tokenFile.access > 1

\* --------------------------------------------- further lifecycle properties
InEnsureValidToken(i) == pc[i] \in {"refresh", "saveRead", "saveWrite"}

\* C25: a call that finds the credential inside the five-minute window
\* starts one refresh, whatever happened in earlier calls; a refresh that
\* fails in that branch leaves this.auth and the token file as they are and
\* ensureValidToken returns, so that a registered tool's handler runs with
\* the credentials in memory.
C25_RetryEveryCall ==
    [][/\ (pc[Observed] = "idle" /\ pc'[Observed] # "idle" /\ hist'.cls = "near") =>
              /\ pc'[Observed] = "refresh"
              /\ hist'.attempts = 1
              /\ RefreshInFlight' = RefreshInFlight + 1
       /\ \A i \in Inv :
              (pc[i] = "refresh" /\ branch[i] = "near"
               /\ pc'[i] \notin {"refresh", "saveRead"}) =>
                  /\ auth' = auth
                  /\ tokenFile' = tokenFile
                  /\ name[i] \in RegisteredTools(server) => pc'[i] = "handler"
                  /\ Obs(i) => hist'.evt = "returned" /\ hist'.refreshFailed]_vars

\* The observed call's refresh failed inside the window and its handler
\* runs, while another call, finding the credential still inside the window,
\* is making its own attempt.
C25_Witness ==
    /\ hist.cls = "near" /\ hist.refreshFailed /\ hist.attempts = 1
    /\ pc[Observed] = "handler"
    /\ ExpiryClass(auth.expiry, now) = "near"
    /\ \E i \in Inv : ~Obs(i) /\ pc[i] = "refresh" /\ branch[i] = "near"

\* The state of the credential lifecycle, seen with the observed invocation:
\* no client yet; a call is between its refresh and the end of its save; the
\* observed call has been answered with the error of ensureValidToken;
\* otherwise the expiry is at least five minutes ahead (valid) or not
\* (expiring, which includes expired and not recorded).
Lifecycle ==
    IF auth.kind # "client" THEN "Unloaded"
    ELSE IF \E i \in Inv : InEnsureValidToken(i) THEN "Refreshing"
    ELSE IF pc[Observed] = "done" /\ Threw THEN "Failed"
    ELSE IF ExpiryClass(auth.expiry, now) = "fresh" THEN "Loaded(valid)"
    ELSE "Loaded(expiring)"

ClaimedChanges ==
    {<<"Unloaded", "Loaded(valid)">>,
     <<"Loaded(valid)", "Loaded(expiring)">>,
     <<"Loaded(expiring)", "Refreshing">>,
     <<"Refreshing", "Loaded(valid)">>,
     <<"Refreshing", "Failed">>}

\* C26 (as claimed): every change of the lifecycle state is one of the five
\* claimed ones.
C26_LifecycleAsClaimed ==
    [][Lifecycle' # Lifecycle => <<Lifecycle, Lifecycle'>> \in ClaimedChanges]_vars

\* C26 (amended): every change of the lifecycle state is a claimed one, or
\* the load of a credential that is already expiring, or the end of a refresh
\* attempt that failed without failing the observed call, or a step out of
\* Failed, which is not final.
C26_LifecycleChanges ==
    [][Lifecycle' # Lifecycle =>
          <<Lifecycle, Lifecycle'>> \in
              ClaimedChanges \cup
              {<<"Unloaded", "Loaded(expiring)">>,
               <<"Refreshing", "Loaded(expiring)">>,
               <<"Failed", "Loaded(valid)">>,
               <<"Failed", "Loaded(expiring)">>,
               <<"Failed", "Refreshing">>}]_vars

\* A preventive refresh has failed: the credential is expiring as before and
\* the handler runs.
C26_Witness ==
    /\ Lifecycle = "Loaded(expiring)"
    /\ hist.cls = "near" /\ hist.refreshFailed /\ Returned
    /\ pc[Observed] = "handler"

\* C27 (as claimed): when no call is inside ensureValidToken and the observed
\* call has refreshed the credentials in memory, the token file holds the
\* access token and the expiry of the client in memory.
C27_MemoryEqualsFile ==
    (/\ mainPc = "serving"
     /\ \A i \in Inv : ~InEnsureValidToken(i)
     /\ hist.attempts = 1 /\ ~hist.refreshFailed) =>
        /\ tokenFile.kind = "token"
        /\ tokenFile.access = auth.access
        /\ tokenFile.expiry = auth.expiry

\* C30: an invocation is in progress or answered only while the transport
\* is connected, and then this.auth holds a client; before that, and after
\* the process has exited, there is no client, no invocation and no answer,
\* and no call is ever answered for lack of a client.
C30_NoServingWithoutClient ==
    /\ mainPc = "serving" => auth.kind = "client"
    /\ mainPc # "serving" =>
          /\ auth = NullClient
          /\ \A i \in Inv : pc[i] = "idle"
          /\ result = NoResult
    /\ hist.thrown # "No hay autenticacion disponible"

\* authorize has failed and the process has exited.
C30_Witness ==
    /\ server = "serverv3"
    /\ mainPc = "exited"
    /\ auth = NullClient
    /\ \A i \in Inv : pc[i] = "idle"

\* ------------------------------------------------ properties of findFreeSlots
SlotsDone == slotPc = "returned"

\* The events are in start order / pairwise non-overlapping / inside the
\* window.
StartOrdered(evs) ==
    \A i, j \in 1..Len(evs) : i < j => evs[i].start <= evs[j].start
NonOverlapping(evs) ==
    \A i, j \in 1..Len(evs) :
        i < j => evs[i].end <= evs[j].start \/ evs[j].end <= evs[i].start
InsideWindow(a) ==
    \A i \in 1..Len(a.events) :
        a.startDate <= a.events[i].start /\ a.events[i].end <= a.endDate

\* How many intervals of the list contain the instant t (end excluded).
Cover(list, t) ==
    Cardinality({i \in 1..Len(list) : list[i].start <= t /\ t < list[i].end})
WindowInstants(a) == {t \in SlotTimes : a.startDate <= t /\ t < a.endDate}

SetMax(S) == CHOOSE x \in S : \A y \in S : y <= x
SetMin(S) == CHOOSE x \in S : \A y \in S : x <= y

\* The gap around the instant t: from the last event end (or the window
\* start) at or before t to the first event start (or the window end)
\* after t.
GapLength(a, t) ==
    LET evs == a.events
        from == SetMax({a.startDate} \cup
                       {evs[i].end : i \in {k \in 1..Len(evs) : evs[k].end <= t}})
        to == SetMin({a.endDate} \cup
                     {evs[i].start : i \in {k \in 1..Len(evs) : evs[k].start > t}})
    IN to - from

\* C18 (as claimed): for start-ordered, pairwise non-overlapping events
\* inside the window, every instant of the window lies in exactly one of the
\* events and the emitted free slots.
C18_ExactCover ==
    (/\ SlotsDone
     /\ StartOrdered(slotArgs.events)
     /\ NonOverlapping(slotArgs.events)
     /\ InsideWindow(slotArgs)) =>
        \A t \in WindowInstants(slotArgs) :
            Cover(slotArgs.events, t) + Cover(freeSlots, t) = 1

\* C18 (amended): for such events, the free slots lie inside the window and
\* no instant of the window lies in two of the events and free slots; an
\* instant outside every event lies in a free slot exactly when the gap
\* around it is at least `duration` minutes long.
C18_CoverUpToShortGaps ==
    (/\ SlotsDone
     /\ StartOrdered(slotArgs.events)
     /\ NonOverlapping(slotArgs.events)
     /\ InsideWindow(slotArgs)) =>
        /\ \A k \in 1..Len(freeSlots) :
              /\ slotArgs.startDate <= freeSlots[k].start
              /\ freeSlots[k].end <= slotArgs.endDate
        /\ \A t \in WindowInstants(slotArgs) :
              Cover(freeSlots, t) =
                  IF /\ Cover(slotArgs.events, t) = 0
                     /\ GapLength(slotArgs, t) >= slotArgs.duration * HalfMinute
                  THEN 1 ELSE 0

\* Two events inside the window: the gap before the first is long enough
\* and emitted, the gap between them is too short and dropped.
C18_Witness ==
    /\ SlotsDone
    /\ Len(slotArgs.events) = 2
    /\ StartOrdered(slotArgs.events)
    /\ NonOverlapping(slotArgs.events)
    /\ InsideWindow(slotArgs)
    /\ Len(freeSlots) = 1
    /\ freeSlots[1].end = slotArgs.events[1].start
    /\ \E t \in WindowInstants(slotArgs) :
          Cover(slotArgs.events, t) + Cover(freeSlots, t) = 0

\* C19: without events, findFreeSlots returns the single slot from the
\* window start to the window end when the window is at least `duration`
\* minutes long (equality included) and nothing when it is shorter.
C19_EmptyBusyList ==
    (SlotsDone /\ slotArgs.events = <<>>) =>
        IF slotArgs.endDate - slotArgs.startDate >= slotArgs.duration * HalfMinute
        THEN /\ Len(freeSlots) = 1
             /\ freeSlots[1].start = slotArgs.startDate
             /\ freeSlots[1].end = slotArgs.endDate
        ELSE freeSlots = <<>>

\* The window is exactly `duration` minutes long.
C19_Witness ==
    /\ SlotsDone
    /\ slotArgs.events = <<>>
    /\ slotArgs.duration > 1
    /\ slotArgs.endDate - slotArgs.startDate = slotArgs.duration * HalfMinute
    /\ Len(freeSlots) = 1

\* Two events in start order, the second starting before the first ends.
Overlapping(evs) ==
    /\ Len(evs) = 2
    /\ evs[1].start <= evs[2].start
    /\ evs[2].start < evs[1].end

\* C20: for two events in start order that overlap (the second may lie
\* inside the first), no free slot reaches into the span from the first
\* start to the later end, no free slot ends before it starts, and no free
\* slot is emitted twice.
C20_OverlapMerged ==
    (SlotsDone /\ Overlapping(slotArgs.events)) =>
        LET evs == slotArgs.events
            spanEnd == IF evs[2].end > evs[1].end THEN evs[2].end ELSE evs[1].end
        IN /\ \A k \in 1..Len(freeSlots) :
                 /\ freeSlots[k].start <= freeSlots[k].end
                 /\ freeSlots[k].end <= evs[1].start \/ freeSlots[k].start >= spanEnd
           /\ \A k, m \in 1..Len(freeSlots) : k < m => freeSlots[k] # freeSlots[m]

\* The second event ends inside the first and the one free slot starts where
\* the first event ends.
C20_Witness ==
    /\ SlotsDone
    /\ Overlapping(slotArgs.events)
    /\ slotArgs.events[2].end < slotArgs.events[1].end
    /\ slotArgs.duration > 0
    /\ Len(freeSlots) = 1
    /\ freeSlots[1].start = slotArgs.events[1].end

\* C21: for the working day, findFreeSlots returns 09:00-10:00 (60 minutes),
\* 10:15-12:00 (105) and 13:00-17:00 (240), in that order.
C21_WorkingDay ==
    (SlotsDone /\ slotArgs = WorkingDay) =>
        freeSlots = <<[start |-> At(9, 0), end |-> At(10, 0), duration |-> 60],
                      [start |-> At(10, 15), end |-> At(12, 0), duration |-> 105],
                      [start |-> At(13, 0), end |-> At(17, 0), duration |-> 240]>>

C21_Witness == SlotsDone /\ slotArgs = WorkingDay /\ Len(freeSlots) = 3

\* The list without its k-th event.
Without(evs, k) ==
    [i \in 1..(Len(evs) - 1) |-> IF i < k THEN evs[i] ELSE evs[i + 1]]

\* The event starts and ends before the window starts.
BeforeWindow(ev, a) == ev.start < a.startDate /\ ev.end <= a.startDate

\* C22: for a start-ordered list, the result is the one findFreeSlots gives
\* for the list without any one event that lies before the window start.
C22_EarlyEventIgnored ==
    (SlotsDone /\ StartOrdered(slotArgs.events)) =>
        \A k \in 1..Len(slotArgs.events) :
            BeforeWindow(slotArgs.events[k], slotArgs) =>
                FindFreeSlots([slotArgs EXCEPT !.events = Without(slotArgs.events, k)])
                    = freeSlots

\* An event before the window, an event inside it, and a slot on each side
\* of the latter.
C22_Witness ==
    /\ SlotsDone
    /\ StartOrdered(slotArgs.events)
    /\ Len(slotArgs.events) = 2
    /\ BeforeWindow(slotArgs.events[1], slotArgs)
    /\ slotArgs.duration > 0
    /\ Len(freeSlots) = 2
    /\ freeSlots[1].start = slotArgs.startDate

\* The list sorted by start, ties by end.
SortEvents(evs) ==
    LET n == Len(evs)
        f == CHOOSE g \in Permutations(1..n) :
                 \A i, j \in 1..n :
                     i < j => \/ evs[g[i]].start < evs[g[j]].start
                              \/ /\ evs[g[i]].start = evs[g[j]].start
                                 /\ evs[g[i]].end <= evs[g[j]].end
    IN [i \in 1..n |-> evs[f[i]]]

SameAsSorted ==
    freeSlots = FindFreeSlots([slotArgs EXCEPT !.events = SortEvents(slotArgs.events)])

\* C23 (as claimed): whatever the order of the events, the result is the one
\* findFreeSlots gives for the list sorted by start, ties by end.
C23_AnyOrder == SlotsDone => SameAsSorted

\* C23 (amended): for events in start order, ties in any order, and a
\* duration above 0, the result is the one for the sorted list.
C23_StartOrderSuffices ==
    (SlotsDone /\ StartOrdered(slotArgs.events) /\ slotArgs.duration > 0) =>
        SameAsSorted

\* Two events with the same start, the longer one first, and a free slot.
C23_Witness ==
    /\ SlotsDone
    /\ slotArgs.duration > 0
    /\ Len(slotArgs.events) = 2
    /\ slotArgs.events[1].start = slotArgs.events[2].start
    /\ slotArgs.events[1].end > slotArgs.events[2].end
    /\ Len(freeSlots) >= 1

\* C24 (as claimed): the duration field of every slot is the whole minutes
\* of end - start, rounded down, and is at least the duration asked for.
C24_FlooredAtLeastMinimum ==
    SlotsDone =>
        \A k \in 1..Len(freeSlots) :
            LET f == freeSlots[k]
            IN /\ f.duration * 60000 <= f.end - f.start
               /\ f.end - f.start < (f.duration + 1) * 60000
               /\ 2 * f.duration >= slotArgs.duration

\* C24 (amended): the duration field of every slot is the whole minutes of
\* end - start, rounded down, and is at least the duration asked for
\* rounded down to whole minutes.
C24_FlooredAtLeastFloor ==
    SlotsDone =>
        \A k \in 1..Len(freeSlots) :
            LET f == freeSlots[k]
            IN /\ f.duration * 60000 <= f.end - f.start
               /\ f.end - f.start < (f.duration + 1) * 60000
               /\ f.duration >= slotArgs.duration \div 2

\* A slot of one minute and a half for a duration of one minute.
C24_Witness ==
    /\ SlotsDone
    /\ slotArgs.duration = 2
    /\ \E k \in 1..Len(freeSlots) :
          /\ freeSlots[k].end - freeSlots[k].start = 3 * HalfMinute
          /\ freeSlots[k].duration = 1

Overlap(f, ev) == f.start < ev.end /\ ev.start < f.end

\* C28: for events in start order and a duration above 0, no slot overlaps
\* an event, and each slot ends at or before the start of the next slot.
C28_SlotsDisjoint ==
    (SlotsDone /\ StartOrdered(slotArgs.events) /\ slotArgs.duration > 0) =>
        /\ \A k \in 1..Len(freeSlots) : \A i \in 1..Len(slotArgs.events) :
              ~Overlap(freeSlots[k], slotArgs.events[i])
        /\ \A k, m \in 1..Len(freeSlots) :
              k < m => /\ freeSlots[k].end <= freeSlots[m].start
                       /\ freeSlots[k].start < freeSlots[m].start

\* Two overlapping events with a slot before and a slot after them.
C28_Witness ==
    /\ SlotsDone
    /\ slotArgs.duration > 0
    /\ Overlapping(slotArgs.events)
    /\ Len(freeSlots) = 2

InWindow(f, a) == a.startDate <= f.start /\ f.start < f.end /\ f.end <= a.endDate

\* C29 (as claimed): for any events and a duration above 0, every slot lies
\* inside the window.
C29_SlotsInsideWindow ==
    (SlotsDone /\ slotArgs.duration > 0) =>
        \A k \in 1..Len(freeSlots) : InWindow(freeSlots[k], slotArgs)

\* C29 (amended): for events that start at or before the window end, in any
\* order, and a duration above 0, every slot lies inside the window.
C29_InsideWhenEventsStartInside ==
    (/\ SlotsDone
     /\ slotArgs.duration > 0
     /\ \A i \in 1..Len(slotArgs.events) :
           slotArgs.events[i].start <= slotArgs.endDate) =>
        \A k \in 1..Len(freeSlots) : InWindow(freeSlots[k], slotArgs)

\* An event that starts before the window and one that ends after it, with
\* a slot between them.
C29_Witness ==
    /\ SlotsDone
    /\ slotArgs.duration > 0
    /\ Len(slotArgs.events) = 2
    /\ slotArgs.events[1].start < slotArgs.startDate
    /\ slotArgs.events[2].start < slotArgs.endDate
    /\ slotArgs.events[2].end > slotArgs.endDate
    /\ Len(freeSlots) = 1

====
